---- MODULE Spec2Model ----
(***************************************************************************)
(* Model of the rental value analyzer: the affordability calculator        *)
(* (DataProcessor.calculate_affordability_index), the ranking engine       *)
(* (NeighborhoodAnalyzer.rank_neighborhoods, in its two variants           *)
(* APPRENTFINAL.py and app.py) and the SQLite-backed store                 *)
(* (DatabaseManager).                                                      *)
(*                                                                         *)
(* Numbers.  The program computes in Python floats.  The model computes in *)
(* exact rationals [n, d] (d > 0, lowest terms); [n |-> 0, d |-> 0] stands *)
(* for NaN, which is what pandas holds for a missing cell.  Every          *)
(* comparison with NaN is false and every sum or product with NaN is NaN,  *)
(* as in IEEE arithmetic.  Rounding of individual float operations is not  *)
(* modelled.                                                               *)
(***************************************************************************)
EXTENDS Integers, Sequences, FiniteSets, TLC

VARIABLES
    af,        \* the latest call of calculate_affordability_index
    afPrev,    \* the call before it
    variant,   \* which file's NeighborhoodAnalyzer is running
    df,        \* the caller's current DataFrame (neighborhoods_df)
    argDf,     \* the DataFrame object passed to the latest rank call, after it
    rankIn,    \* the DataFrame passed to the latest rank call, before it
    rankW,     \* the weights argument of the latest rank call
    prevW,     \* the weights argument of the rank call that produced rankIn
    err,       \* exception raised by the latest operation ("none" if none)
    table,     \* rows of the neighborhoods table
    result,    \* rows returned by the latest query
    query,     \* the latest query: its kind and arguments
    inserts,   \* how many times insert_data has been called on the database file
    sliders,   \* the priority slider values main read (empty before it reads them)
    userWeights, \* main's local variable weights
    shown,     \* what the Top Neighborhoods tab rendered
    pc         \* position in the run

vars == <<af, afPrev, variant, df, argDf, rankIn, rankW, prevW, err, table, result, query,
          inserts, sliders, userWeights, shown, pc>>

afVars == <<af, afPrev>>
uiVars == <<sliders, userWeights, shown>>
pipeVars == <<variant, df, argDf, rankIn, rankW, prevW, err, table, result, query,
              inserts, uiVars, pc>>

----------------------------------------------------------------------------
(* Bounds *)

MaxRentK == 41       \* rents are 0, 100, ..., 100 * MaxRentK
MaxIncomeK == 10     \* incomes are -12000, 0, 12000, ..., 12000 * MaxIncomeK
MaxRecords == 3      \* rows in a DataFrame
MaxBudgetK == 10     \* budgets are 500, 1000, ..., 500 * MaxBudgetK
MaxTopN == 3         \* top_n is 0..MaxTopN
MaxInserts == 2      \* insert_data is called at most MaxInserts times on one file
ScoreSteps == 2      \* free component scores are 0, 100/ScoreSteps, ..., 100

----------------------------------------------------------------------------
(* Float arithmetic, as exact rationals with NaN *)

NaN == [n |-> 0, d |-> 0]

IsNaN(x) == x.d = 0

Abs(i) == IF i < 0 THEN -i ELSE i

RECURSIVE GCD(_, _)
GCD(a, b) == IF b = 0 THEN a ELSE GCD(b, a % b)

\* the float n / d for integers n, d; d = 0 gives NaN
Rat(n, d) ==
    IF d = 0 THEN NaN
    ELSE LET s == IF d < 0 THEN -1 ELSE 1
             g == GCD(Abs(n), Abs(d))
         IN  [n |-> (s * n) \div g, d |-> (s * d) \div g]

R(i) == [n |-> i, d |-> 1]

RAdd(x, y) == IF IsNaN(x) \/ IsNaN(y) THEN NaN ELSE Rat(x.n * y.d + y.n * x.d, x.d * y.d)
RSub(x, y) == IF IsNaN(x) \/ IsNaN(y) THEN NaN ELSE Rat(x.n * y.d - y.n * x.d, x.d * y.d)
RMul(x, y) == IF IsNaN(x) \/ IsNaN(y) THEN NaN ELSE Rat(x.n * y.n, x.d * y.d)
\* x / y for y # 0 (a float division by zero raises ZeroDivisionError: see the callers)
RDiv(x, y) == IF IsNaN(x) \/ IsNaN(y) THEN NaN ELSE Rat(x.n * y.d, x.d * y.n)

RLe(x, y) == ~IsNaN(x) /\ ~IsNaN(y) /\ x.n * y.d <= y.n * x.d
RLt(x, y) == ~IsNaN(x) /\ ~IsNaN(y) /\ x.n * y.d < y.n * x.d
RGe(x, y) == RLe(y, x)
RGt(x, y) == RLt(y, x)

\* Python's max(a, b): b if b > a else a
RMax(a, b) == IF RGt(b, a) THEN b ELSE a

----------------------------------------------------------------------------
(* DataProcessor.calculate_affordability_index *)

\* if income <= 0
IncomeGuardStrict(income) == income < 0
IncomeGuard(income) == income <= 0

\* monthly_income = income / 12
MonthlyIncomeAnnual(income) == R(income)
MonthlyIncome(income) == RDiv(R(income), R(12))

\* rent_to_income_ratio <= breakpoint
Below(ratio, breakpoint) == RLt(ratio, breakpoint)
AtMost(ratio, breakpoint) == RLe(ratio, breakpoint)

\* max(0, 100 - (rent_to_income_ratio - 0.3) * 200)
LastBranchUnclamped(ratio) == RSub(R(100), RMul(RSub(ratio, Rat(3, 10)), R(200)))
LastBranch(ratio) == RMax(R(0), RSub(R(100), RMul(RSub(ratio, Rat(3, 10)), R(200))))

\* The result is [ret, exc, divs]: the value returned, the exception raised
\* instead ("none" if none) and the number of divisions executed.
calculate_affordability_index(rent, income) ==
    IF IncomeGuard(income)
    THEN [ret |-> R(0), exc |-> "none", divs |-> 0]
    ELSE LET monthly_income == MonthlyIncome(income)
             rent_to_income_ratio == RDiv(R(rent), monthly_income)
         IN  IF monthly_income.n = 0
             THEN [ret |-> NaN, exc |-> "ZeroDivisionError", divs |-> 2]
             ELSE [ret |-> IF AtMost(rent_to_income_ratio, Rat(25, 100)) THEN R(100)
                           ELSE IF AtMost(rent_to_income_ratio, Rat(30, 100)) THEN R(85)
                           ELSE IF AtMost(rent_to_income_ratio, Rat(35, 100)) THEN R(70)
                           ELSE IF AtMost(rent_to_income_ratio, Rat(40, 100)) THEN R(50)
                           ELSE LastBranch(rent_to_income_ratio),
                   exc |-> "none", divs |-> 2]

Rents == {100 * k : k \in 0..MaxRentK}
Incomes == {12000 * k : k \in -1..MaxIncomeK}

NoCall == [called |-> FALSE, rent |-> 0, income |-> 0, out |-> [ret |-> NaN, exc |-> "none", divs |-> 0]]

\* one call of the calculator, as load_sample_data makes per row; the model
\* follows two calls in a row
CalculateAffordability ==
    /\ ~afPrev.called
    /\ \E rent \in Rents, income \in Incomes :
          af' = [called |-> TRUE, rent |-> rent, income |-> income,
                 out |-> calculate_affordability_index(rent, income)]
    /\ afPrev' = af
    /\ UNCHANGED pipeVars

----------------------------------------------------------------------------
(* DataFrames *)

\* A DataFrame is [cols, rows].  cols holds which of the optional columns
\* school_score, value_score and rank the frame has (every other column is
\* always there); rows is the sequence of rows in index order.  A row carries
\* every field; the cell of a column the frame lacks is NaN (rank: 0).
Row(name, county, rent, income, amenity, transit, safety, school, growth) ==
    [name |-> name, county |-> county,
     median_rent |-> rent, median_income |-> income,
     affordability |-> calculate_affordability_index(rent, income).ret,
     amenity_score |-> R(amenity), transit_score |-> R(transit),
     safety_score |-> R(safety), school_score |-> R(school),
     growth_potential |-> R(growth),
     value_score |-> NaN, rank |-> 0]

\* Neighborhoods the record source may supply; names are unique
Catalog ==
    { Row("A", "Los Angeles", 1000, 60000, 80, 70, 90, 60, 60),
      Row("B", "Los Angeles", 4000, 40000, 50, 50, 50, 50, 50),
      Row("C", "San Diego", 2000, 100000, 70, 80, 90, 90, 60),
      Row("D", "San Diego", 4100, 120000, 90, 50, 70, 80, 40),
      Row("E", "San Jose", 1500, 72000, 75, 75, 90, 75, 60) }

\* the frames of n rows: n different catalog entries in any order
RawRows(n) ==
    { f \in [1..n -> Catalog] : \A i, j \in 1..n : i # j => f[i].name # f[j].name }

DropSchool(rows) == [i \in 1..Len(rows) |-> [rows[i] EXCEPT !.school_score = NaN]]

RawFrames ==
    UNION { { [cols |-> {"school_score"}, rows |-> rows],
              [cols |-> {}, rows |-> DropSchool(rows)] } :
            rows \in UNION { RawRows(n) : n \in 0..MaxRecords } }

NoFrame == [cols |-> {}, rows |-> <<>>]

\* load_sample_data builds its frame in one fixed order (here the catalog's),
\* with a school_score column in APPRENTFINAL.py and without one in app.py
CatalogOrder == <<"A", "B", "C", "D", "E">>
Place(name) == CHOOSE i \in 1..Len(CatalogOrder) : CatalogOrder[i] = name

InCatalogOrder(rows) == \A i, j \in 1..Len(rows) : i < j => Place(rows[i].name) < Place(rows[j].name)

SampleFrames(v) ==
    { IF v = "APPRENTFINAL" THEN [cols |-> {"school_score"}, rows |-> rows]
      ELSE [cols |-> {}, rows |-> DropSchool(rows)] :
      rows \in { f \in UNION { RawRows(n) : n \in 0..MaxRecords } : InCatalogOrder(f) } }

\* component scores within 0..100
Scores == { Rat(100 * k, ScoreSteps) : k \in 0..ScoreSteps }

\* a record of given rent and income with the four component scores that
\* every record source supplies, and no school_score
Scored(name, rent, income, amenity, transit, safety, growth) ==
    [Row(name, "", rent, income, 0, 0, 0, 0, 0) EXCEPT
        !.amenity_score = amenity, !.transit_score = transit,
        !.safety_score = safety, !.growth_potential = growth,
        !.school_score = NaN]

\* The frames of the three-record scenario: A as given, B and C with the
\* given rent and income and any component scores
ScenarioFrames ==
    { [cols |-> {},
       rows |-> << Scored("A", 1000, 60000, R(80), R(70), R(90), R(60)),
                   Scored("B", 4000, 40000, b[1], b[2], b[3], b[4]),
                   Scored("C", 2000, 100000, c[1], c[2], c[3], c[4]) >>] :
      b \in Scores \X Scores \X Scores \X Scores,
      c \in Scores \X Scores \X Scores \X Scores }

\* frames whose school_score column exists but holds NaN for the records in
\* missing (a frame built from records of which only some carry the field)
Blank(rows, missing) ==
    [i \in 1..Len(rows) |-> IF i \in missing THEN [rows[i] EXCEPT !.school_score = NaN]
                            ELSE rows[i]]

SparseFrames ==
    UNION { { [cols |-> {"school_score"}, rows |-> Blank(rows, missing)] :
                missing \in SUBSET (1..Len(rows)) } :
            rows \in UNION { RawRows(n) : n \in 0..MaxRecords } }

----------------------------------------------------------------------------
(* Weights *)

Keys == {"affordability", "amenities", "transit", "safety", "schools", "growth"}

\* A weights argument: None, or a dict from some of the keys to floats
None == [given |-> FALSE, map |-> [k \in {} |-> R(0)]]
Dict(m) == [given |-> TRUE, map |-> m]

\* the dict main builds from the six sliders (each 0..100), total > 0
SliderDict(a, m, t, s, sc, g) ==
    LET total_weight ==
            RAdd(RAdd(RAdd(RAdd(RAdd(Rat(a, 100), Rat(m, 100)), Rat(t, 100)),
                 Rat(s, 100)), Rat(sc, 100)), Rat(g, 100))
    IN  Dict([k \in Keys |->
             RDiv(Rat(CASE k = "affordability" -> a [] k = "amenities" -> m
                        [] k = "transit" -> t [] k = "safety" -> s
                        [] k = "schools" -> sc [] k = "growth" -> g, 100),
                  total_weight)])

Without(w, key) == Dict([k \in (DOMAIN w.map) \ {key} |-> w.map[k]])

FullDicts ==
    { SliderDict(30, 20, 20, 20, 15, 10),
      SliderDict(0, 50, 50, 0, 0, 0),
      SliderDict(0, 0, 0, 0, 100, 0),
      SliderDict(100, 0, 0, 100, 0, 100) }

WeightArgs ==
    {None} \cup FullDicts
    \cup { Without(w, "schools") : w \in FullDicts }
    \cup { Without(SliderDict(30, 20, 20, 20, 15, 10), k) : k \in {"affordability", "growth"} }

\* the sliders of main: six in APPRENTFINAL.py, five (no schools) in app.py
SliderKeys(v) == IF v = "APPRENTFINAL" THEN Keys ELSE Keys \ {"schools"}

\* the slider defaults
DefaultSliders(v) ==
    [k \in SliderKeys(v) |->
        CASE k = "affordability" -> 30 [] k = "amenities" -> 20 [] k = "transit" -> 20
          [] k = "safety" -> 20 [] k = "schools" -> 15 [] k = "growth" -> 10]

\* slider settings a user may choose: each slider at an end of 0..100, or
\* all left at their defaults
SliderChoices(v) == [SliderKeys(v) -> {0, 100}] \cup {DefaultSliders(v)}

\* total_weight, in hundredths
TotalOf(sl) ==
    sl["affordability"] + sl["amenities"] + sl["transit"] + sl["safety"]
    + (IF "schools" \in DOMAIN sl THEN sl["schools"] ELSE 0) + sl["growth"]

\* the dict of the sliders over their total
Normalized(v, sl) ==
    LET six == SliderDict(sl["affordability"], sl["amenities"], sl["transit"], sl["safety"],
                          IF "schools" \in DOMAIN sl THEN sl["schools"] ELSE 0, sl["growth"])
    IN  IF v = "APPRENTFINAL" THEN six ELSE Without(six, "schools")

\* main's weights after "if total_weight > 0: weights = {...}", which has
\* "else: weights = None" in app.py and no else in APPRENTFINAL.py
NormalizeWeightsNoGuard(v, sl) == [bound |-> TRUE, val |-> Normalized(v, sl)]
NormalizeWeights(v, sl) ==
    IF TotalOf(sl) > 0 THEN [bound |-> TRUE, val |-> Normalized(v, sl)]
    ELSE IF v = "app" THEN [bound |-> TRUE, val |-> None]
    ELSE [bound |-> FALSE, val |-> None]

\* "if weights:" a non-empty dict is true, None is false
Truthy(w) == w.bound /\ w.val.given /\ DOMAIN w.val.map # {}

----------------------------------------------------------------------------
(* NeighborhoodAnalyzer.rank_neighborhoods *)

Variants == {"APPRENTFINAL", "app"}

\* the dict substituted when weights is None
DefaultWeightsSchools15(v) ==
    IF v = "APPRENTFINAL"
    THEN [k \in Keys |->
            CASE k = "affordability" -> Rat(3, 10) [] k = "amenities" -> Rat(2, 10)
              [] k = "transit" -> Rat(2, 10) [] k = "safety" -> Rat(2, 10)
              [] k = "schools" -> Rat(15, 100) [] k = "growth" -> Rat(1, 10)]
    ELSE [k \in Keys \ {"schools"} |->
            CASE k = "affordability" -> Rat(3, 10) [] k = "amenities" -> Rat(2, 10)
              [] k = "transit" -> Rat(2, 10) [] k = "safety" -> Rat(2, 10)
              [] k = "growth" -> Rat(15, 100)]
DefaultWeights(v) ==
    IF v = "APPRENTFINAL"
    THEN [k \in Keys |->
            CASE k = "affordability" -> Rat(3, 10) [] k = "amenities" -> Rat(2, 10)
              [] k = "transit" -> Rat(2, 10) [] k = "safety" -> Rat(2, 10)
              [] k = "schools" -> Rat(1, 10) [] k = "growth" -> Rat(1, 10)]
    ELSE [k \in Keys \ {"schools"} |->
            CASE k = "affordability" -> Rat(3, 10) [] k = "amenities" -> Rat(2, 10)
              [] k = "transit" -> Rat(2, 10) [] k = "safety" -> Rat(2, 10)
              [] k = "growth" -> Rat(1, 10)]

\* the dict the body works with
EffectiveWeightsMerged(v, weights) ==
    IF weights.given
    THEN [k \in DOMAIN DefaultWeights(v) \cup DOMAIN weights.map |->
            IF k \in DOMAIN weights.map THEN weights.map[k] ELSE DefaultWeights(v)[k]]
    ELSE DefaultWeights(v)
EffectiveWeights(v, weights) == IF weights.given THEN weights.map ELSE DefaultWeights(v)

\* the keys read with weights[key]: a missing one raises KeyError
RequiredKeys == {"affordability", "amenities", "transit", "safety", "growth"}

\* weights.get('schools', 0.1)
SchoolsWeightNoDefault(w) == IF "schools" \in DOMAIN w THEN w["schools"] ELSE R(0)
SchoolsWeight(w) == IF "schools" \in DOMAIN w THEN w["schools"] ELSE Rat(1, 10)

\* df['school_score'] = 75.0 when the frame has no such column (APPRENTFINAL only)
EnsureSchoolScore(v, d) ==
    IF v = "APPRENTFINAL" /\ "school_score" \notin d.cols
    THEN [cols |-> d.cols \cup {"school_score"},
          rows |-> [i \in 1..Len(d.rows) |-> [d.rows[i] EXCEPT !.school_score = Rat(750, 10)]]]
    ELSE d

\* the weighted sum of one row, terms added left to right
ValueScore(v, r, w) ==
    LET four == RAdd(RAdd(RAdd(RMul(r.affordability, w["affordability"]),
                               RMul(r.amenity_score, w["amenities"])),
                          RMul(r.transit_score, w["transit"])),
                     RMul(r.safety_score, w["safety"]))
    IN  IF v = "APPRENTFINAL"
        THEN RAdd(RAdd(four, RMul(r.school_score, SchoolsWeight(w))),
                  RMul(r.growth_potential, w["growth"]))
        ELSE RAdd(four, RMul(r.growth_potential, w["growth"]))

\* df['value_score'] = ...
SetValueScore(v, d, w) ==
    [cols |-> d.cols \cup {"value_score"},
     rows |-> [i \in 1..Len(d.rows) |->
                 [d.rows[i] EXCEPT !.value_score = ValueScore(v, d.rows[i], w)]]]

\* a sorts strictly before b under (value_score descending, NaN last)
SortsBeforeAscending(a, b) ==
    \/ ~IsNaN(a.value_score) /\ IsNaN(b.value_score)
    \/ RLt(a.value_score, b.value_score)
SortsBefore(a, b) ==
    \/ ~IsNaN(a.value_score) /\ IsNaN(b.value_score)
    \/ RGt(a.value_score, b.value_score)

Perms(n) == { p \in [1..n -> 1..n] : \A i, j \in 1..n : i # j => p[i] # p[j] }

\* df.sort_values('value_score', ascending=False): pandas sorts with
\* kind='quicksort', which numpy does not promise to be stable, so rows of
\* equal value_score may come out in any order
SortValues(rows) ==
    { [i \in 1..Len(rows) |-> rows[p[i]]] : p \in
        { q \in Perms(Len(rows)) :
            \A i, j \in 1..Len(rows) : i < j => ~SortsBefore(rows[q[j]], rows[q[i]]) } }

\* df['rank'] = range(1, len(df) + 1)
RankColumnZeroBased(n) == [i \in 1..n |-> i - 1]
RankColumn(n) == [i \in 1..n |-> i]

SetRank(d) ==
    [cols |-> d.cols \cup {"rank"},
     rows |-> [i \in 1..Len(d.rows) |-> [d.rows[i] EXCEPT !.rank = RankColumn(Len(d.rows))[i]]]]

\* The outcomes of rank_neighborhoods(df, weights): [exc, ret, arg] with ret the
\* returned frame and arg the caller's frame object after the call.
rank_neighborhoods(v, d, weights) ==
    LET w == EffectiveWeights(v, weights)
        d1 == EnsureSchoolScore(v, d)
    IN  IF ~(RequiredKeys \subseteq DOMAIN w)
        THEN { [exc |-> "KeyError", ret |-> NoFrame, arg |-> d1] }
        ELSE LET d2 == SetValueScore(v, d1, w)
             IN  { [exc |-> "none",
                    ret |-> SetRank([cols |-> d2.cols, rows |-> sorted]),
                    arg |-> d2] : sorted \in SortValues(d2.rows) }

\* df['median_rent'] <= budget
Affordable(r, budget) == r.median_rent <= budget

\* DataFrame.head(n) for n >= 0: the first n rows, all of them if fewer
tail(rows, n) == SubSeq(rows, Len(rows) - (IF n < Len(rows) THEN n ELSE Len(rows)) + 1, Len(rows))
head(rows, n) == SubSeq(rows, 1, IF n < Len(rows) THEN n ELSE Len(rows))

\* find_best_value_neighborhoods(df, budget, top_n) of app.py: the rows within
\* budget, in the order the frame has them, cut to the first top_n
find_best_value_neighborhoods(d, budget, top_n) ==
    LET Keep(r) == Affordable(r, budget)
    IN  head(SelectSeq(d.rows, Keep), top_n)

----------------------------------------------------------------------------
(* DatabaseManager *)

\* DELETE FROM neighborhoods, then df.to_sql('neighborhoods',
\* if_exists='replace'): whatever table t held, the table becomes the frame
insert_data_append(t, d) == t \o d.rows
insert_data(t, d) == d.rows

\* SELECT * FROM neighborhoods ORDER BY value_score DESC: SQL fixes no order
\* among rows of equal value_score
query_all_neighborhoods(t) == SortValues(t)

\* WHERE county = ?  (TEXT compares byte for byte).  Fold gives the lower-case
\* form of the county strings in use.
Fold(c) ==
    CASE c = "Los Angeles" -> "los angeles"
      [] c = "San Diego" -> "san diego"
      [] c = "San Jose" -> "san jose"
      [] OTHER -> c
CountyMatchesNoCase(r, county) == Fold(r.county) = Fold(county)
CountyMatches(r, county) == r.county = county

\* WHERE median_rent <= ?
WithinBudgetStrict(r, max_rent) == r.median_rent < max_rent
WithinBudgetFlipped(r, max_rent) == r.median_rent >= max_rent
WithinBudget(r, max_rent) == r.median_rent <= max_rent

\* WHERE county = ? AND median_rent <= ?
CountyOrBudget(r, county, max_rent) == r.county = county \/ r.median_rent <= max_rent
CountyAndBudget(r, county, max_rent) == r.county = county /\ r.median_rent <= max_rent

\* SELECT * FROM neighborhoods WHERE county = ? ORDER BY value_score DESC
query_by_county(t, county) ==
    LET Keep(r) == CountyMatches(r, county) IN SortValues(SelectSeq(t, Keep))

\* SELECT * FROM neighborhoods WHERE median_rent <= ? ORDER BY value_score DESC
query_by_budget(t, max_rent) ==
    LET Keep(r) == WithinBudget(r, max_rent) IN SortValues(SelectSeq(t, Keep))

\* SELECT * FROM neighborhoods WHERE county = ? AND median_rent <= ?
\* ORDER BY value_score DESC
query_by_county_and_budget(t, county, max_rent) ==
    LET Keep(r) == CountyAndBudget(r, county, max_rent) IN SortValues(SelectSeq(t, Keep))

\* sum of a sequence of floats, left to right
RECURSIVE RSum(_)
RSum(xs) == IF xs = <<>> THEN R(0) ELSE RAdd(RSum(SubSeq(xs, 1, Len(xs) - 1)), xs[Len(xs)])

\* AVG(column): the sum over the count; NULL (NaN) over no rows
Avg(xs) == RDiv(RSum(xs), R(Len(xs)))

ValueScores(rows) == [i \in 1..Len(rows) |-> rows[i].value_score]
Affordabilities(rows) == [i \in 1..Len(rows) |-> rows[i].affordability]
MedianRents(rows) == [i \in 1..Len(rows) |-> R(rows[i].median_rent)]

\* MIN(median_rent), MAX(median_rent); 0 stands for NULL over no rows
MinRent(rows) ==
    IF rows = <<>> THEN 0
    ELSE CHOOSE m \in {rows[i].median_rent : i \in 1..Len(rows)} :
            \A i \in 1..Len(rows) : m <= rows[i].median_rent
MaxRent(rows) ==
    IF rows = <<>> THEN 0
    ELSE CHOOSE m \in {rows[i].median_rent : i \in 1..Len(rows)} :
            \A i \in 1..Len(rows) : m >= rows[i].median_rent

\* GROUP BY county: the counties of the table, and the rows of one of them
Counties(t) == {t[i].county : i \in 1..Len(t)}
GroupOf(t, county) == LET Keep(r) == r.county = county IN SelectSeq(t, Keep)

\* one row of query_top_counties
TopCountyRow(t, county) ==
    LET rows == GroupOf(t, county)
    IN  [county |-> county,
         avg_value_score |-> Avg(ValueScores(rows)),
         avg_rent |-> Avg(MedianRents(rows)),
         avg_affordability |-> Avg(Affordabilities(rows)),
         neighborhood_count |-> Len(rows)]

\* ORDER BY avg_value_score DESC: a sorts strictly before b
GroupSortsBeforeAscending(a, b) ==
    \/ ~IsNaN(a.avg_value_score) /\ IsNaN(b.avg_value_score)
    \/ RLt(a.avg_value_score, b.avg_value_score)
GroupSortsBefore(a, b) ==
    \/ ~IsNaN(a.avg_value_score) /\ IsNaN(b.avg_value_score)
    \/ RGt(a.avg_value_score, b.avg_value_score)

\* the orders ORDER BY may give a set of group rows (ties in any order)
OrderGroups(G) ==
    { s \in [1..Cardinality(G) -> G] :
        /\ \A i, j \in 1..Cardinality(G) : i # j => s[i] # s[j]
        /\ \A i, j \in 1..Cardinality(G) : i < j => ~GroupSortsBefore(s[j], s[i]) }

\* LIMIT ? for a limit >= 0
Limit(s, n) == SubSeq(s, 1, IF n < Len(s) THEN n ELSE Len(s))

\* SELECT county, AVG(value_score), AVG(median_rent), AVG(affordability), COUNT(*)
\* FROM neighborhoods GROUP BY county ORDER BY avg_value_score DESC LIMIT ?
query_top_counties(t, top_n) ==
    { Limit(s, top_n) : s \in OrderGroups({ TopCountyRow(t, c) : c \in Counties(t) }) }

\* WHERE county = ? GROUP BY county: the groups formed, none when no row matches
StatsGroupsNoGroupBy(rows) == {rows}
StatsGroups(rows) == IF rows = <<>> THEN {} ELSE {rows}

\* SELECT county, COUNT(*), AVG(median_rent), AVG(value_score), AVG(affordability),
\* MIN(median_rent), MAX(median_rent) FROM neighborhoods WHERE county = ? GROUP BY county
query_county_stats(t, county) ==
    LET Keep(r) == CountyMatches(r, county)
        groups == StatsGroups(SelectSeq(t, Keep))
    IN  IF groups = {} THEN <<>>
        ELSE LET rows == CHOOSE g \in groups : TRUE
             IN  << [county |-> IF rows = <<>> THEN "" ELSE rows[1].county,
                     total_neighborhoods |-> Len(rows),
                     avg_rent |-> Avg(MedianRents(rows)),
                     avg_value_score |-> Avg(ValueScores(rows)),
                     avg_affordability |-> Avg(Affordabilities(rows)),
                     min_rent |-> MinRent(rows),
                     max_rent |-> MaxRent(rows)] >>

----------------------------------------------------------------------------
(* The run *)

\* main before it reads the sliders and before the tab is rendered
NoSliders == [k \in {} |-> 0]
Unbound == [bound |-> FALSE, val |-> None]
NoShow == [warning |-> FALSE, cards |-> 0, detailed |-> 0]
UiIdle == sliders = NoSliders /\ userWeights = Unbound /\ shown = NoShow

NoQuery == [kind |-> "none", county |-> "", max_rent |-> 0, top_n |-> 0]

\* arguments of the queries: the counties in the data, one in another letter
\* case, a prefix of one and one that is not in the data
CountyArgs == {"Los Angeles", "San Diego", "San Jose", "los angeles", "Los", "Fresno"}
BudgetArgs == {500 * k : k \in 1..MaxBudgetK}
TopNArgs == 0..MaxTopN

PipeInit ==
    /\ variant \in Variants
    /\ df \in RawFrames
    /\ argDf = NoFrame
    /\ rankIn = NoFrame
    /\ rankW = None
    /\ prevW = None
    /\ err = "none"
    /\ table = <<>>
    /\ result = <<>>
    /\ query = NoQuery
    /\ inserts = 0 /\ UiIdle
    /\ pc = "loaded"

\* df = analyzer.rank_neighborhoods(df, weights): a first call on the raw frame
\* (load_sample_data makes it with weights None), then a second call on its
\* result, as main makes on the frame load_sample_data ranked, or with the
\* same weights again
RankCall(weights) ==
    /\ \E o \in rank_neighborhoods(variant, df, weights) :
            /\ rankIn' = df
            /\ rankW' = weights
            /\ prevW' = rankW
            /\ argDf' = o.arg
            /\ err' = o.exc
            /\ IF o.exc = "none"
               THEN df' = o.ret /\ pc' = (IF pc = "loaded" THEN "ranked" ELSE "reranked")
               ELSE df' = o.arg /\ pc' = "failed"
    /\ UNCHANGED <<variant, table, result, query, inserts, uiVars, afVars>>

RankNeighborhoods ==
    /\ pc \in {"loaded", "ranked"}
    /\ \E weights \in WeightArgs :
         /\ pc = "ranked" => (rankW = None \/ weights = rankW)
         /\ RankCall(weights)

\* df = analyzer.rank_neighborhoods(df) at the end of load_sample_data
LoadSampleData ==
    /\ pc = "loaded"
    /\ RankCall(None)

\* db.insert_data(neighborhoods_df), of a frame rank_neighborhoods returned
\* (its second application returns no frame that its first cannot return);
\* only APPRENTFINAL.py has the store
InsertData ==
    /\ variant = "APPRENTFINAL"
    /\ pc = "ranked"
    /\ table' = insert_data(table, df)
    /\ inserts' = inserts + 1
    /\ pc' = "stored"
    /\ err' = "none"
    /\ UNCHANGED <<variant, df, argDf, rankIn, rankW, prevW, result, query, uiVars, afVars>>

\* db.query_all_neighborhoods()
QueryAll ==
    /\ pc = "stored"
    /\ result' \in query_all_neighborhoods(table)
    /\ query' = [NoQuery EXCEPT !.kind = "all"]
    /\ pc' = "queried"
    /\ err' = "none"
    /\ UNCHANGED <<variant, df, argDf, rankIn, rankW, prevW, table, inserts, uiVars, afVars>>

\* a query leaves everything but its result alone
Answer(kind, county, max_rent, top_n, results) ==
    /\ pc = "stored"
    /\ result' \in results
    /\ query' = [kind |-> kind, county |-> county, max_rent |-> max_rent, top_n |-> top_n]
    /\ pc' = "queried"
    /\ err' = "none"
    /\ UNCHANGED <<variant, df, argDf, rankIn, rankW, prevW, table, inserts, uiVars, afVars>>

\* db.query_by_county(county)
QueryByCounty ==
    \E county \in CountyArgs :
        Answer("county", county, 0, 0, query_by_county(table, county))

\* db.query_by_budget(budget)
QueryByBudget ==
    \E max_rent \in BudgetArgs :
        Answer("budget", "", max_rent, 0, query_by_budget(table, max_rent))

\* db.query_by_county_and_budget(selected_county, budget)
QueryByCountyAndBudget ==
    \E county \in CountyArgs, max_rent \in BudgetArgs :
        Answer("county_and_budget", county, max_rent, 0,
               query_by_county_and_budget(table, county, max_rent))

\* db.query_top_counties(top_n)
QueryTopCounties ==
    \E top_n \in TopNArgs :
        Answer("top_counties", "", 0, top_n, query_top_counties(table, top_n))

\* db.query_county_stats(selected_county)
QueryCountyStats ==
    \E county \in CountyArgs :
        Answer("county_stats", county, 0, 0, {query_county_stats(table, county)})

AfIdle == af = NoCall /\ afPrev = NoCall

Init == PipeInit /\ AfIdle

Next == RankNeighborhoods \/ InsertData \/ QueryAll

Spec == Init /\ [][Next]_vars

\* The store of APPRENTFINAL.py's main: the frame load_sample_data ranked with
\* the default weights is inserted and queried.  (main ranks it once more with
\* the default weights before inserting, which returns no frame the first
\* ranking cannot return.)
InitStore == PipeInit /\ AfIdle /\ variant = "APPRENTFINAL"

NextStore ==
    \/ LoadSampleData
    \/ InsertData
    \/ QueryAll
    \/ QueryByCounty
    \/ QueryByBudget
    \/ QueryByCountyAndBudget
    \/ QueryTopCounties
    \/ QueryCountyStats

SpecStore == InitStore /\ [][NextStore]_vars

\* A run of main ends: its local frames are gone, the database file
\* rental_data.db keeps its table
EndRun ==
    /\ pc \in {"stored", "queried"}
    /\ inserts < MaxInserts
    /\ df' = NoFrame /\ argDf' = NoFrame /\ rankIn' = NoFrame
    /\ rankW' = None /\ prevW' = None
    /\ err' = "none"
    /\ result' = <<>> /\ query' = NoQuery
    /\ pc' = "ended"
    /\ UNCHANGED <<variant, table, inserts, uiVars, afVars>>

\* The next run of main (Streamlit runs it again on every interaction):
\* CREATE TABLE IF NOT EXISTS leaves the table alone, and the run starts
\* over with the frame it loads
Rerun ==
    /\ pc = "ended"
    /\ df' \in RawFrames
    /\ pc' = "loaded"
    /\ UNCHANGED <<variant, argDf, rankIn, rankW, prevW, err, table, result, query,
                   inserts, uiVars, afVars>>

\* runs of APPRENTFINAL.py's main on one database file, one after another
NextRuns == NextStore \/ EndRun \/ Rerun

SpecRuns == InitStore /\ [][NextRuns]_vars

\* rank_neighborhoods(df) called once with the weights omitted
RankWithDefaults ==
    /\ pc = "loaded"
    /\ RankCall(None)

\* the three-record scenario scored with the default weights, in either file
InitScenario ==
    /\ variant \in Variants
    /\ df \in ScenarioFrames
    /\ argDf = NoFrame /\ rankIn = NoFrame
    /\ rankW = None /\ prevW = None
    /\ err = "none" /\ table = <<>> /\ result = <<>>
    /\ query = NoQuery
    /\ inserts = 0 /\ UiIdle
    /\ pc = "loaded"
    /\ AfIdle

NextScenario == RankWithDefaults

SpecScenario == InitScenario /\ [][NextScenario]_vars

\* rank_neighborhoods of APPRENTFINAL.py called once on a frame in which any
\* of the records may lack a school_score
InitSparse ==
    /\ variant = "APPRENTFINAL"
    /\ df \in SparseFrames \cup RawFrames
    /\ argDf = NoFrame
    /\ rankIn = NoFrame
    /\ rankW = None
    /\ prevW = None
    /\ err = "none"
    /\ table = <<>>
    /\ result = <<>>
    /\ query = NoQuery
    /\ inserts = 0 /\ UiIdle
    /\ pc = "loaded"
    /\ AfIdle

RankOnce ==
    /\ pc = "loaded"
    /\ \E weights \in WeightArgs : RankCall(weights)

NextSparse == RankOnce

SpecSparse == InitSparse /\ [][NextSparse]_vars

\* main reads the sliders and normalizes them (after the insert in
\* APPRENTFINAL.py, after load_sample_data in app.py)
SelectWeights ==
    /\ pc = (IF variant = "APPRENTFINAL" THEN "stored" ELSE "ranked")
    /\ \E sl \in SliderChoices(variant) :
          /\ sliders' = sl
          /\ userWeights' = NormalizeWeights(variant, sl)
    /\ pc' = "weighted"
    /\ UNCHANGED <<variant, df, argDf, rankIn, rankW, prevW, err, table, result, query,
                   inserts, shown, afVars>>

\* the counties of the selectbox: "All California" and the frame's own
SelectableCounties == {"All California"} \cup { df.rows[i].county : i \in 1..Len(df.rows) }

\* APPRENTFINAL.py: filtered_df = db.query_by_county_and_budget(selected_county,
\* budget) for a selected county, db.query_by_budget(budget) for "All California"
MainQuery ==
    /\ variant = "APPRENTFINAL"
    /\ pc = "weighted"
    /\ \E selected_county \in SelectableCounties, budget \in BudgetArgs :
          IF selected_county # "All California"
          THEN /\ result' \in query_by_county_and_budget(table, selected_county, budget)
               /\ query' = [kind |-> "county_and_budget", county |-> selected_county,
                            max_rent |-> budget, top_n |-> 0]
          ELSE /\ result' \in query_by_budget(table, budget)
               /\ query' = [kind |-> "budget", county |-> "", max_rent |-> budget, top_n |-> 0]
    /\ pc' = "queried"
    /\ err' = "none"
    /\ UNCHANGED <<variant, df, argDf, rankIn, rankW, prevW, table, inserts, uiVars, afVars>>

\* app.py: if weights: neighborhoods_df = analyzer.rank_neighborhoods(neighborhoods_df, weights)
ReRank ==
    /\ variant = "app"
    /\ pc = "weighted"
    /\ Truthy(userWeights)
    /\ RankCall(userWeights.val)

\* app.py: best_neighborhoods = analyzer.find_best_value_neighborhoods(
\* neighborhoods_df, budget, top_n=10), after the re-ranking or, when weights
\* is None, without it; top_n is also taken small enough to cut the frame
FindBestValue ==
    /\ variant = "app"
    /\ pc = "reranked" \/ (pc = "weighted" /\ ~Truthy(userWeights))
    /\ \E budget \in BudgetArgs, top_n \in TopNArgs \cup {10} :
          /\ result' = find_best_value_neighborhoods(df, budget, top_n)
          /\ query' = [kind |-> "find_best", county |-> "", max_rent |-> budget, top_n |-> top_n]
    /\ pc' = "found"
    /\ err' = "none"
    /\ UNCHANGED <<variant, df, argDf, rankIn, rankW, prevW, table, inserts, uiVars, afVars>>

\* The Top Neighborhoods tab.  APPRENTFINAL.py: one card per row of
\* head(5), with "Detailed Data" inside the loop body, and the warning in
\* the else clause of the for loop, which runs whenever the loop ends
\* without break (it has none).  app.py: the warning when the frame is
\* empty, else the cards and then "Detailed Data" once.
Tab2(v, rows) ==
    IF v = "APPRENTFINAL"
    THEN [warning |-> TRUE,
          cards |-> Len(head(rows, 5)),
          detailed |-> Len(head(rows, 5))]
    ELSE [warning |-> rows = <<>>,
          cards |-> Len(head(rows, 5)),
          detailed |-> IF rows = <<>> THEN 0 ELSE 1]

ShowTab2 ==
    /\ pc = (IF variant = "APPRENTFINAL" THEN "queried" ELSE "found")
    /\ shown' = Tab2(variant, result)
    /\ pc' = "shown"
    /\ UNCHANGED <<variant, df, argDf, rankIn, rankW, prevW, err, table, result, query,
                   inserts, sliders, userWeights, afVars>>

\* One run of main, of either file, on the frame load_sample_data builds
InitMain ==
    /\ variant \in Variants
    /\ df \in SampleFrames(variant)
    /\ argDf = NoFrame /\ rankIn = NoFrame
    /\ rankW = None /\ prevW = None
    /\ err = "none" /\ table = <<>> /\ result = <<>>
    /\ query = NoQuery
    /\ inserts = 0 /\ UiIdle
    /\ pc = "loaded"
    /\ AfIdle

NextMain ==
    \/ LoadSampleData
    \/ InsertData
    \/ SelectWeights
    \/ MainQuery
    \/ ReRank
    \/ FindBestValue
    \/ ShowTab2

SpecMain == InitMain /\ [][NextMain]_vars

\* the calculator on its own
PipeIdle ==
    /\ variant = "APPRENTFINAL"
    /\ df = NoFrame /\ argDf = NoFrame /\ rankIn = NoFrame
    /\ rankW = None /\ prevW = None
    /\ err = "none" /\ table = <<>> /\ result = <<>>
    /\ query = NoQuery
    /\ inserts = 0 /\ UiIdle
    /\ pc = "idle"

InitAfford == AfIdle /\ PipeIdle

NextAfford == CalculateAffordability

SpecAfford == InitAfford /\ [][NextAfford]_vars

----------------------------------------------------------------------------
(* The affordability calculator: claims C4 to C8, under SpecAfford *)

\* the ratio of the claims, rent / (income / 12), in exact arithmetic
ClaimRatio(rent, income) == Rat(12 * rent, income)

\* the score the table of breakpoints gives a ratio
ClaimScore(q) ==
    IF RLe(q, Rat(1, 4)) THEN R(100)
    ELSE IF RLe(q, Rat(3, 10)) THEN R(85)
    ELSE IF RLe(q, Rat(7, 20)) THEN R(70)
    ELSE IF RLe(q, Rat(2, 5)) THEN R(50)
    ELSE LET x == RSub(R(100), RMul(RSub(q, Rat(30, 100)), R(200)))
         IN  IF RLt(x, R(0)) THEN R(0) ELSE x

\* C4: for income > 0 the call returns 100, 85, 70, 50 on the four intervals
\* closed at 0.25, 0.30, 0.35 and 0.40 (breakpoint included), and
\* max(0, 100 - (ratio - 0.30) * 200) above 0.40.
C4_Breakpoints ==
    (af.called /\ af.income > 0) =>
        /\ af.out.exc = "none"
        /\ af.out.ret = ClaimScore(ClaimRatio(af.rent, af.income))

\* a call on the breakpoint 0.40 followed by a call just above it
C4_Witness ==
    /\ afPrev.called /\ afPrev.income = 120000 /\ afPrev.rent = 4000 /\ afPrev.out.ret = R(50)
    /\ af.called /\ af.income = 120000 /\ af.rent = 4100 /\ af.out.ret = R(78)

\* C5: for income <= 0 the call returns 0, raises nothing and divides nothing.
C5_DivisionGuard ==
    (af.called /\ af.income <= 0) =>
        /\ af.out.exc = "none"
        /\ af.out.ret = R(0)
        /\ af.out.divs = 0

C5_Witness ==
    /\ af.called /\ af.income = 0 /\ af.rent = 1000 /\ af.out.ret = R(0)
    /\ afPrev.called /\ afPrev.income < 0 /\ afPrev.out.ret = R(0)

\* C6: for a fixed income > 0 the score never goes up when the rent goes up
\* (afPrev and af are any two calls).
C6_Monotone ==
    (/\ afPrev.called /\ af.called
     /\ af.income > 0 /\ afPrev.income = af.income
     /\ afPrev.rent <= af.rent)
    => RGe(afPrev.out.ret, af.out.ret)

\* C7: every call returns a value, raises nothing, and the value is in 0..100.
C7_TotalInRange ==
    af.called =>
        /\ af.out.exc = "none"
        /\ RLe(R(0), af.out.ret)
        /\ RLe(af.out.ret, R(100))

\* a call whose linear branch is negative before the clamp, after a call
\* with a negative income
C7_Witness ==
    /\ af.called /\ af.income = 12000 /\ af.rent = 4000 /\ af.out.ret = R(0)
    /\ afPrev.called /\ afPrev.income < 0

\* C8 as stated: with income 120000, rent 2500 gives 100, rent 3000 gives 85
\* and rent 3600 gives 70.
C8_Original ==
    (af.called /\ af.income = 120000) =>
        /\ af.rent = 2500 => af.out.ret = R(100)
        /\ af.rent = 3000 => af.out.ret = R(85)
        /\ af.rent = 3600 => af.out.ret = R(70)

\* C8 amended: with income 120000, rent 2500 gives 100, rent 3000 gives 85 and
\* rent 3600 (ratio 0.36, above the breakpoint 0.35) gives 50.
C8_BoundaryValues ==
    (af.called /\ af.income = 120000) =>
        /\ af.rent = 2500 => af.out.ret = R(100)
        /\ af.rent = 3000 => af.out.ret = R(85)
        /\ af.rent = 3600 => af.out.ret = R(50)

C8_Witness ==
    /\ afPrev.called /\ afPrev.income = 120000 /\ afPrev.rent = 3000 /\ afPrev.out.ret = R(85)
    /\ af.called /\ af.income = 120000 /\ af.rent = 3600 /\ af.out.ret = R(50)

----------------------------------------------------------------------------
(* The ranking engine and the store: claims C1 to C3, C9 and C10, under Spec *)

\* df is a frame rank_neighborhoods returned
Returned == pc \in {"ranked", "reranked", "stored", "queried"}

\* the latest call of rank_neighborhoods returned df
JustRanked == pc \in {"ranked", "reranked"}

\* the weight of key k in the latest call, 0.10 for a missing 'schools'
ClaimWeight(k) ==
    LET w == EffectiveWeights(variant, rankW)
    IN  IF k \in DOMAIN w THEN w[k] ELSE Rat(10, 100)

\* the school_score of a record, 75.0 for a record without one
ClaimSchool(r) == IF IsNaN(r.school_score) THEN R(75) ELSE r.school_score

\* the five terms that do not involve schools
ClaimFiveTerms(r) ==
    RAdd(RMul(r.growth_potential, ClaimWeight("growth")),
    RAdd(RMul(r.safety_score, ClaimWeight("safety")),
    RAdd(RMul(r.transit_score, ClaimWeight("transit")),
    RAdd(RMul(r.amenity_score, ClaimWeight("amenities")),
         RMul(r.affordability, ClaimWeight("affordability"))))))

ClaimSixTerms(r) == RAdd(ClaimFiveTerms(r), RMul(ClaimSchool(r), ClaimWeight("schools")))

\* C1 as stated: rank_neighborhoods sets every record's value_score to the
\* six-term weighted sum, the schools weight being 0.10 when the mapping has
\* no 'schools' key.
C1_Original ==
    JustRanked => \A i \in 1..Len(df.rows) : df.rows[i].value_score = ClaimSixTerms(df.rows[i])

\* C1 amended: the rank_neighborhoods of APPRENTFINAL.py sets every record's
\* value_score to the six-term weighted sum, the schools weight being 0.10
\* when the mapping has no 'schools' key; the rank_neighborhoods of app.py
\* sets it to the five-term sum that has no school_score term.
C1_ValueScore ==
    JustRanked =>
        \A i \in 1..Len(df.rows) :
            df.rows[i].value_score =
                IF variant = "APPRENTFINAL" THEN ClaimSixTerms(df.rows[i])
                ELSE ClaimFiveTerms(df.rows[i])

\* APPRENTFINAL.py scored records that have their own school_score with a
\* mapping that has no 'schools' key
C1_Witness ==
    /\ variant = "APPRENTFINAL" /\ pc = "ranked"
    /\ rankW.given /\ "schools" \notin DOMAIN rankW.map
    /\ "school_score" \in rankIn.cols
    /\ Len(df.rows) = 3
    /\ \E i \in 1..3 : df.rows[i].name = "C" /\ ~(df.rows[i].value_score = ClaimFiveTerms(df.rows[i]))

\* C2: the frame rank_neighborhoods returns, and the rows the All query
\* returns, are in descending order of value_score: a record of smaller rank
\* has a value_score >= that of a record of larger rank.
C2_Descending ==
    /\ Returned =>
          \A i, j \in 1..Len(df.rows) :
              df.rows[i].rank < df.rows[j].rank =>
                  RGe(df.rows[i].value_score, df.rows[j].value_score)
    /\ pc = "queried" =>
          \A i, j \in 1..Len(result) :
              i < j => RGe(result[i].value_score, result[j].value_score)

\* the All query returned three rows of three different value_scores that were
\* stored in another order
C2_Witness ==
    /\ pc = "queried" /\ Len(result) = 3
    /\ RGt(result[1].value_score, result[2].value_score)
    /\ RGt(result[2].value_score, result[3].value_score)
    /\ rankIn.rows[1].name = result[3].name

\* the fields of a record that rank_neighborhoods is given
InputFields(r) ==
    <<r.name, r.county, r.median_rent, r.median_income, r.affordability,
      r.amenity_score, r.transit_score, r.safety_score, r.growth_potential>>

\* C3: rank_neighborhoods returns as many records as it was given, the same
\* records, and their ranks are exactly 1..N, each used once.
C3_RankPermutation ==
    JustRanked =>
        LET N == Len(rankIn.rows) IN
        /\ Len(df.rows) = N
        /\ \A i \in 1..N : \E j \in 1..N :
              /\ InputFields(df.rows[j]) = InputFields(rankIn.rows[i])
              /\ "school_score" \in rankIn.cols =>
                     df.rows[j].school_score = rankIn.rows[i].school_score
        /\ \A i, j \in 1..N : i # j => df.rows[i].name # df.rows[j].name
        /\ \A k \in 1..N : Cardinality({ j \in 1..N : df.rows[j].rank = k }) = 1
        /\ \A j \in 1..N : df.rows[j].rank \in 1..N

\* three records were ranked, two of them with the same value_score
C3_Witness ==
    /\ pc = "ranked" /\ Len(rankIn.rows) = 3 /\ Len(df.rows) = 3
    /\ df.rows[1].value_score = df.rows[2].value_score
    /\ df.rows[1].rank = 1 /\ df.rows[2].rank = 2 /\ df.rows[3].rank = 3

\* the position of the record called name in a frame's rows
IndexOf(rows, name) == CHOOSE i \in 1..Len(rows) : rows[i].name = name

\* C9: the sort is stable: of two input records with equal value_score, the
\* one that came first in the input gets the smaller rank.
C9_Stable ==
    JustRanked =>
        \A i, j \in 1..Len(df.rows) :
            (/\ df.rows[i].value_score = df.rows[j].value_score
             /\ IndexOf(rankIn.rows, df.rows[i].name) < IndexOf(rankIn.rows, df.rows[j].name))
            => df.rows[i].rank < df.rows[j].rank

\* C10: rank_neighborhoods applied to its own output with the same weights
\* gives every record the value_score and the rank it had.
C10_Idempotent ==
    (pc = "reranked" /\ rankW = prevW) =>
        \A i \in 1..Len(df.rows) :
            LET before == rankIn.rows[IndexOf(rankIn.rows, df.rows[i].name)]
            IN  /\ df.rows[i].value_score = before.value_score
                /\ df.rows[i].rank = before.rank

----------------------------------------------------------------------------
(* Claims about the contract of rank_neighborhoods *)

\* the latest call of rank_neighborhoods has ended, with a frame or an error
Called == pc \in {"ranked", "reranked", "failed"}

\* C11: rank_neighborhoods does not mutate its input: after the call the
\* frame the caller passed in has the same fields, values and order as
\* before the call.
C11_NoMutation == Called => argDf = rankIn

\* the record of the latest call's input that is called name
Before(name) == rankIn.rows[IndexOf(rankIn.rows, name)]

\* C12: a record that has no school_score is scored with 75.0 for that
\* record only, records with their own school_score keep it, whether the
\* field is missing from all records or from only some of them.
C12_PerRecordDefault ==
    (variant = "APPRENTFINAL" /\ pc = "ranked") =>
        \A j \in 1..Len(df.rows) :
            /\ df.rows[j].school_score = ClaimSchool(Before(df.rows[j].name))
            /\ df.rows[j].value_score = ClaimSixTerms(Before(df.rows[j].name))

\* the supplied mapping lacks a key that has no fallback
LacksRequiredKey == rankW.given /\ ~(RequiredKeys \subseteq DOMAIN rankW.map)

\* C13: a supplied mapping that lacks affordability, amenities, transit,
\* safety or growth fails the whole call with a missing-key error, no frame
\* is returned and no record gets a value_score or a rank; a mapping that
\* lacks only 'schools' does not fail.
C13_MissingKey ==
    Called =>
        /\ LacksRequiredKey <=> pc = "failed"
        /\ LacksRequiredKey <=> err = "KeyError"
        /\ pc = "failed" =>
              /\ df = argDf
              /\ argDf.cols \cap {"value_score", "rank"} = rankIn.cols \cap {"value_score", "rank"}
              /\ Len(argDf.rows) = Len(rankIn.rows)
              /\ \A i \in 1..Len(argDf.rows) :
                    /\ argDf.rows[i].name = rankIn.rows[i].name
                    /\ argDf.rows[i].value_score = rankIn.rows[i].value_score
                    /\ argDf.rows[i].rank = rankIn.rows[i].rank

\* a first call on three unranked records failed for want of 'affordability'
C13_Witness ==
    /\ pc = "failed" /\ err = "KeyError" /\ variant = "APPRENTFINAL"
    /\ "affordability" \notin DOMAIN rankW.map
    /\ Len(argDf.rows) = 3 /\ "value_score" \notin argDf.cols
    /\ \A i \in 1..3 : IsNaN(argDf.rows[i].value_score) /\ argDf.rows[i].rank = 0

\* the default vector as the claim gives it
C14_Vector ==
    [k \in Keys |->
        CASE k = "affordability" -> Rat(30, 100) [] k = "amenities" -> Rat(20, 100)
          [] k = "transit" -> Rat(20, 100) [] k = "safety" -> Rat(20, 100)
          [] k = "schools" -> Rat(10, 100) [] k = "growth" -> Rat(10, 100)]

C14_Five(r) ==
    RAdd(RMul(r.growth_potential, C14_Vector["growth"]),
    RAdd(RMul(r.safety_score, C14_Vector["safety"]),
    RAdd(RMul(r.transit_score, C14_Vector["transit"]),
    RAdd(RMul(r.amenity_score, C14_Vector["amenities"]),
         RMul(r.affordability, C14_Vector["affordability"])))))

C14_Six(r) == RAdd(C14_Five(r), RMul(r.school_score, C14_Vector["schools"]))

\* rank_neighborhoods was just called without weights and returned
DefaultsUsed == JustRanked /\ ~rankW.given

\* C14 as stated: called without weights, rank_neighborhoods scores with
\* affordability 0.30, amenities 0.20, transit 0.20, safety 0.20, schools
\* 0.10, growth 0.10, in every variant.
C14_Original ==
    DefaultsUsed => \A i \in 1..Len(df.rows) : df.rows[i].value_score = C14_Six(df.rows[i])

\* C14 amended: called without weights, the rank_neighborhoods of
\* APPRENTFINAL.py scores with affordability 0.30, amenities 0.20, transit
\* 0.20, safety 0.20, schools 0.10, growth 0.10 (six factors, sum 1.10);
\* that of app.py scores with the same vector without schools (five
\* factors, sum 1.00).
C14_DefaultVector ==
    DefaultsUsed =>
        \A i \in 1..Len(df.rows) :
            df.rows[i].value_score =
                IF variant = "APPRENTFINAL" THEN C14_Six(df.rows[i]) ELSE C14_Five(df.rows[i])

\* app.py ranked three records without weights and left schools out
C14_Witness ==
    /\ variant = "app" /\ pc = "ranked" /\ ~rankW.given
    /\ Len(df.rows) = 3 /\ "school_score" \in df.cols
    /\ \A i \in 1..3 : /\ df.rows[i].value_score = C14_Five(df.rows[i])
                       /\ df.rows[i].value_score # C14_Six(df.rows[i])

----------------------------------------------------------------------------
(* Claims about the queries of the store *)

\* the records of a sequence of rows
RowSet(rows) == { rows[i] : i \in 1..Len(rows) }

\* a query result lists each of the records in want once, best value first
Lists(rows, want) ==
    /\ RowSet(rows) = want
    /\ Len(rows) = Cardinality(want)
    /\ \A i, j \in 1..Len(rows) : i < j => RGe(rows[i].value_score, rows[j].value_score)

\* the stored records of a county, and those within a budget
InCounty(county) == { r \in RowSet(table) : r.county = county }
InBudget(max_rent) == { r \in RowSet(table) : r.median_rent <= max_rent }

\* C15: the records query_by_county_and_budget(c, b) returns are those that
\* query_by_county(c) and query_by_budget(b) both return on the same table.
C15_Intersection ==
    query.kind = "county_and_budget" =>
        \A byCounty \in query_by_county(table, query.county) :
            \A byBudget \in query_by_budget(table, query.max_rent) :
                RowSet(result) = RowSet(byCounty) \cap RowSet(byBudget)

\* of three stored records one is returned, one fails the county and one
\* the budget
C15_Witness ==
    /\ query.kind = "county_and_budget" /\ Len(table) = 3 /\ Len(result) = 1
    /\ \E r \in InCounty(query.county) : r.median_rent > query.max_rent
    /\ \E r \in InBudget(query.max_rent) : r.county # query.county

\* C16: query_by_budget(maxRent) returns exactly the stored records with
\* median_rent <= maxRent, one with rent equal to maxRent included, in
\* descending order of value_score.
C16_ByBudget ==
    query.kind = "budget" =>
        /\ Lists(result, InBudget(query.max_rent))
        /\ \A i \in 1..Len(result) : result[i].median_rent <= query.max_rent
        /\ \A r \in RowSet(table) : r.median_rent = query.max_rent => r \in RowSet(result)

\* a record whose rent equals the budget is returned, a dearer one is not
C16_Witness ==
    /\ query.kind = "budget" /\ Len(table) = 3 /\ Len(result) = 2
    /\ \E i \in 1..2 : result[i].median_rent = query.max_rent
    /\ \E r \in RowSet(table) : r.median_rent > query.max_rent /\ r \notin RowSet(result)

\* C17: query_by_county(county) returns exactly the stored records whose
\* county is the same string as the argument, none when the argument differs
\* in letter case or is a prefix, in descending order of value_score.
C17_ByCounty ==
    query.kind = "county" =>
        /\ Lists(result, InCounty(query.county))
        /\ \A i \in 1..Len(result) : result[i].county = query.county
        /\ query.county \in {"los angeles", "Los"} => result = <<>>

\* 'los angeles' finds nothing in a table that holds Los Angeles records
C17_Witness ==
    /\ query.kind = "county" /\ query.county = "los angeles"
    /\ Len(table) = 3 /\ result = <<>>
    /\ \E r \in RowSet(table) : r.county = "Los Angeles"

\* the stored records the filter of the latest query lets through
Matching ==
    CASE query.kind = "county" -> InCounty(query.county)
      [] query.kind = "budget" -> InBudget(query.max_rent)
      [] query.kind = "county_and_budget" -> InCounty(query.county) \cap InBudget(query.max_rent)
      [] OTHER -> RowSet(table)

FilterQuery == query.kind \in {"county", "budget", "county_and_budget"}

\* C20: a filter query whose predicate matches no stored record returns an
\* empty sequence and raises no error, also when the table holds no record.
C20_EmptyResult ==
    (FilterQuery /\ Matching = {}) => (pc = "queried" /\ result = <<>> /\ err = "none")

\* a budget below every stored rent finds nothing in a table of three
C20_Witness ==
    /\ query.kind = "budget" /\ Len(table) = 3
    /\ \A r \in RowSet(table) : r.median_rent > query.max_rent
    /\ result = <<>> /\ err = "none"

\* a column of a stored record as a number
Column(r, col) == IF col = "median_rent" THEN R(r.median_rent) ELSE r[col]

\* the sum and the arithmetic mean of a column over a set of records
RECURSIVE Total(_, _)
Total(S, col) ==
    IF S = {} THEN R(0)
    ELSE LET r == CHOOSE x \in S : TRUE IN RAdd(Column(r, col), Total(S \ {r}, col))

Mean(S, col) == RDiv(Total(S, col), R(Cardinality(S)))

StoredCounties == { r.county : r \in RowSet(table) }

\* C18: query_top_counties(n) returns min(n, number of counties) groups, each
\* with the means of value_score, median_rent and affordability and the
\* number of exactly the stored records of its county, in descending order
\* of avg_value_score, so that no group left out has a greater mean than a
\* returned one.
C18_TopCounties ==
    query.kind = "top_counties" =>
        /\ Len(result) = (IF query.top_n < Cardinality(StoredCounties)
                          THEN query.top_n ELSE Cardinality(StoredCounties))
        /\ \A i \in 1..Len(result) :
              /\ result[i].county \in StoredCounties
              /\ result[i].neighborhood_count = Cardinality(InCounty(result[i].county))
              /\ result[i].avg_value_score = Mean(InCounty(result[i].county), "value_score")
              /\ result[i].avg_rent = Mean(InCounty(result[i].county), "median_rent")
              /\ result[i].avg_affordability = Mean(InCounty(result[i].county), "affordability")
        /\ \A i, j \in 1..Len(result) :
              i < j => /\ result[i].county # result[j].county
                       /\ RGe(result[i].avg_value_score, result[j].avg_value_score)
        /\ \A c \in StoredCounties \ { result[i].county : i \in 1..Len(result) } :
              \A i \in 1..Len(result) :
                  RGe(result[i].avg_value_score, Mean(InCounty(c), "value_score"))

\* the best of two counties is returned, a group of two records whose
\* value_scores differ, and the other county is left out
C18_Witness ==
    /\ query.kind = "top_counties" /\ query.top_n = 1
    /\ Len(table) = 3 /\ Cardinality(StoredCounties) = 2
    /\ Len(result) = 1 /\ result[1].neighborhood_count = 2
    /\ \E r \in InCounty(result[1].county) : r.value_score # result[1].avg_value_score

\* C19: query_county_stats(county) returns at most one row; when a stored
\* record has that county the row holds their number, the means of their
\* median_rent, value_score and affordability and the least and greatest
\* median_rent (min_rent <= avg_rent <= max_rent, and the number is the size
\* of query_by_county(county)); when none has, no row is returned.
C19_CountyStats ==
    query.kind = "county_stats" =>
        LET rs == InCounty(query.county) IN
        /\ Len(result) <= 1
        /\ rs = {} <=> result = <<>>
        /\ rs # {} =>
              /\ result[1].county = query.county
              /\ result[1].total_neighborhoods = Cardinality(rs)
              /\ \A byCounty \in query_by_county(table, query.county) :
                    result[1].total_neighborhoods = Len(byCounty)
              /\ result[1].avg_rent = Mean(rs, "median_rent")
              /\ result[1].avg_value_score = Mean(rs, "value_score")
              /\ result[1].avg_affordability = Mean(rs, "affordability")
              /\ \E r \in rs : r.median_rent = result[1].min_rent
              /\ \E r \in rs : r.median_rent = result[1].max_rent
              /\ \A r \in rs : result[1].min_rent <= r.median_rent /\ r.median_rent <= result[1].max_rent
              /\ RLe(R(result[1].min_rent), result[1].avg_rent)
              /\ RLe(result[1].avg_rent, R(result[1].max_rent))

\* the row of a county with two of the three stored records, of different rents
C19_Witness ==
    /\ query.kind = "county_stats" /\ Len(table) = 3 /\ Len(result) = 1
    /\ result[1].total_neighborhoods = 2
    /\ result[1].min_rent < result[1].max_rent
    /\ RLt(R(result[1].min_rent), result[1].avg_rent)

----------------------------------------------------------------------------
(* Claims about runs of main *)

\* C21: after any sequence of insert_data calls, with queries in between, the
\* table holds exactly the records of the latest call, each once, whatever
\* it held before (the same records included), and a query leaves it so.
C21_LastInsert ==
    pc \in {"stored", "queried"} =>
        /\ inserts >= 1
        /\ table = df.rows
        /\ Cardinality(RowSet(table)) = Len(table)

\* the second insert_data on the file stored three records, which a query
\* by county then read in part
C21_Witness ==
    /\ inserts = 2 /\ pc = "queried" /\ query.kind = "county"
    /\ Len(table) = 3 /\ Len(result) = 2 /\ table = df.rows

\* the ranked record called name
Ranked(name) == df.rows[IndexOf(df.rows, name)]

\* each of the free component scores of record a is at least that of record b
AtLeastAsGood(a, b) ==
    /\ RGe(a.amenity_score, b.amenity_score) /\ RGe(a.transit_score, b.transit_score)
    /\ RGe(a.safety_score, b.safety_score) /\ RGe(a.growth_potential, b.growth_potential)

InRange(x) == RGe(x, R(0)) /\ RLe(x, R(100))

\* every component score of the record lies in 0..100
ComponentsInRange(r) ==
    /\ InRange(r.affordability) /\ InRange(r.amenity_score) /\ InRange(r.transit_score)
    /\ InRange(r.safety_score) /\ InRange(r.school_score) /\ InRange(r.growth_potential)

\* C26: with the default weights, a record whose component scores all lie in
\* 0..100 gets a value_score in 0..100, in both files.
C26_ValueScoreRange ==
    (pc = "ranked" /\ ~rankW.given) =>
        \A i \in 1..Len(df.rows) :
            ComponentsInRange(df.rows[i]) => InRange(df.rows[i].value_score)

\* C23: on a run of main the records displayed carry value_scores computed
\* with the weights the user selected with the sliders.
C23_SelectedWeightsUsed ==
    (pc = "shown" /\ TotalOf(sliders) > 0) =>
        \A i \in 1..Len(result) :
            result[i].value_score =
                ValueScore(variant, result[i], NormalizeWeights(variant, sliders).val.map)

\* the sum of the values of a weight dict
RECURSIVE SumOfKeys(_, _)
SumOfKeys(map, keys) ==
    IF keys = {} THEN R(0)
    ELSE LET k == CHOOSE x \in keys : TRUE IN RAdd(map[k], SumOfKeys(map, keys \ {k}))

\* main has read the sliders
SlidersRead == pc \in {"weighted", "queried", "reranked", "found", "shown"}

\* C24: the weight mapping main builds has each component equal to its
\* slider value over the total, and the components sum to 1, whenever some
\* slider is non-zero; when all are zero nothing is divided by zero, no
\* mapping is built and the run completes with the records ranked by the
\* default weights.
C24_Normalized ==
    SlidersRead =>
        /\ err = "none"
        /\ TotalOf(sliders) > 0 =>
              /\ userWeights.bound /\ userWeights.val.given
              /\ DOMAIN userWeights.val.map = SliderKeys(variant)
              /\ \A k \in SliderKeys(variant) :
                    userWeights.val.map[k] = Rat(sliders[k], TotalOf(sliders))
              /\ SumOfKeys(userWeights.val.map, SliderKeys(variant)) = R(1)
        /\ TotalOf(sliders) = 0 =>
              /\ ~userWeights.val.given
              /\ pc # "reranked"
              /\ ~rankW.given
              /\ pc = "shown" =>
                    /\ \A i \in 1..Len(result) :
                          result[i].value_score =
                              ValueScore(variant, result[i], DefaultWeights(variant))
                    /\ \A i, j \in 1..Len(result) :
                          i < j => RGe(result[i].value_score, result[j].value_score)

\* app.py ran to the end with all sliders at zero and showed two records
C24_Witness ==
    /\ variant = "app" /\ pc = "shown" /\ TotalOf(sliders) = 0
    /\ userWeights.bound /\ ~userWeights.val.given
    /\ Len(df.rows) = 3 /\ Len(result) = 2 /\ err = "none"

\* C25: in the Top Neighborhoods tab of APPRENTFINAL.py the warning is shown
\* exactly when the filtered result is empty, and "Detailed Data" is
\* rendered at most once, and only for a non-empty result.
C25_Tab2 ==
    (variant = "APPRENTFINAL" /\ pc = "shown") =>
        /\ shown.warning <=> result = <<>>
        /\ shown.detailed <= 1
        /\ shown.detailed = 1 => result # <<>>

\* the records of the frame that are within the budget of the latest call
WithinBudgetOf(d) == { r \in RowSet(d.rows) : r.median_rent <= query.max_rent }

\* C28: on a frame rank_neighborhoods produced, find_best_value_neighborhoods
\* returns min(top_n, number of records within budget) records, all within
\* budget, in descending order of value_score, none of them with a smaller
\* value_score than a within-budget record left out; after main's
\* re-ranking with the user's weights and, with all sliders at zero,
\* without it.
C28_FindBestValue ==
    pc = "found" =>
        /\ Len(result) = (IF query.top_n < Cardinality(WithinBudgetOf(df))
                          THEN query.top_n ELSE Cardinality(WithinBudgetOf(df)))
        /\ RowSet(result) \subseteq WithinBudgetOf(df)
        /\ Cardinality(RowSet(result)) = Len(result)
        /\ \A i, j \in 1..Len(result) :
              i < j => RGe(result[i].value_score, result[j].value_score)
        /\ \A r \in WithinBudgetOf(df) \ RowSet(result) :
              \A i \in 1..Len(result) : RGe(result[i].value_score, r.value_score)

\* after a re-ranking with the user's weights, one of the two records
\* within budget is returned and a third is over budget
C28_Witness ==
    /\ pc = "found" /\ rankW.given /\ query.top_n = 1
    /\ Len(df.rows) = 3 /\ Cardinality(WithinBudgetOf(df)) = 2
    /\ Len(result) = 1
    /\ \E r \in WithinBudgetOf(df) \ RowSet(result) : RLt(r.value_score, result[1].value_score)

\* the latest query returned stored records
RecordQuery == query.kind \in {"all", "county", "budget", "county_and_budget"}

\* C27: in the result of every query that returns records, the records
\* appear in strictly increasing order of their stored rank, also when
\* value_scores are tied.
C27_RankOrder ==
    RecordQuery => \A i, j \in 1..Len(result) : i < j => result[i].rank < result[j].rank

====
